---- MODULE Spec2Model ----
(***************************************************************************)
(* Model of the Raft node of src/node.py (class RaftNode) running in the    *)
(* three-node cluster set up by src/node_example.py, or in a cluster of a  *)
(* single node.                                                            *)
(*                                                                         *)
(* Wall-clock time is abstracted: an election timeout or a heartbeat       *)
(* interval may elapse at any moment the raft loop of the node is able to  *)
(* run.  Every coroutine section between two suspension points (await on   *)
(* network I/O or sleep) is one atomic action.  Log indices are 0-based as *)
(* in the source; position k of a TLA+ sequence holds log index k-1.       *)
(* The timestamp field of a LogEntry is informational and is left out.     *)
(***************************************************************************)
EXTENDS Integers, Sequences, FiniteSets, TLC

\* ------------------------------------------------------------------ bounds
MaxTimeouts == 2
MaxLog == 1
MaxInFlight == 1
StaleMaxLog == 3
StaleMaxInFlight == 4

\* ------------------------------------------------------- cluster and values
\* the cluster of src/node_example.py
Cluster == {1, 2, 3}

\* a cluster configured with one node
Single == {1}

None == 0

FOLLOWER == "follower"
CANDIDATE == "candidate"
LEADER == "leader"

\* "SET k v" as the sequence of its characters
CmdSet == <<"S", "E", "T", " ", "k", " ", "v">>

Commands == {CmdSet}

VARIABLES
    all_nodes,      \* the all_nodes list every node is constructed with
    current_term,   \* [node -> Nat]
    voted_for,      \* [node -> node or None]
    log,            \* [node -> Seq(LogEntry)]
    commit_index,   \* [node -> Int], -1 when nothing is committed
    last_applied,   \* [node -> Int]
    state,          \* [node -> NodeState]
    next_index,     \* [node -> [node -> Int]]; Absent while the dict has no key
    match_index,    \* [node -> [node -> Int]]; read with default -1
    state_machine,  \* [node -> set of <<key, value>>] the dict as its items
    vote_round,     \* [node -> NoRound or the election round being gathered]
    ae_tasks,       \* set of <<src, dst>>: created _send_append_entries tasks not yet started
    append_requests,  \* AppendEntries requests on the wire
    append_responses, \* AppendEntries responses on the wire
    elected,        \* history: set of <<term, node>> of every _become_leader
    timeouts,       \* history: number of election timeouts that have fired
    refused,        \* history: some append_entry call has returned False
    rpc,            \* history: the last call or connection that carried no Raft request
    acked,          \* history: [node -> [node -> the highest match_index of a success
                    \* response the node has processed in its latest term of doing so]]
    stopped,        \* the nodes whose stop() has returned
    committed       \* history: [index, entry, term] for every index a node's
                    \* commit_index has passed, with the entry it held there and the
                    \* node's current_term at that moment

vars == <<current_term, voted_for, log, commit_index, last_applied, state,
          next_index, match_index, state_machine, vote_round, ae_tasks,
          append_requests, append_responses, elected, timeouts, refused,
          all_nodes, rpc, acked, stopped, committed>>

nodeVars == <<current_term, voted_for, log, commit_index, last_applied, state,
              next_index, match_index, state_machine>>

Absent == -1

NoRound == [active |-> FALSE]

NoCall == [kind |-> "none"]

NoAck == [term |-> 0, index |-> -1]

Others(i) == all_nodes \ {i}

Min(a, b) == IF a < b THEN a ELSE b

\* ------------------------------------------------------------ construction
\* RaftNode.__init__ on every node of the cluster nodes
__init__(nodes) ==
    /\ all_nodes = nodes
    /\ current_term = [i \in all_nodes |-> 0]
    /\ voted_for = [i \in all_nodes |-> None]
    /\ log = [i \in all_nodes |-> << >>]
    /\ commit_index = [i \in all_nodes |-> -1]
    /\ last_applied = [i \in all_nodes |-> -1]
    /\ state = [i \in all_nodes |-> FOLLOWER]
    /\ next_index = [i \in all_nodes |-> [j \in all_nodes |-> Absent]]
    /\ match_index = [i \in all_nodes |-> [j \in all_nodes |-> -1]]
    /\ state_machine = [i \in all_nodes |-> {}]
    /\ vote_round = [i \in all_nodes |-> NoRound]
    /\ ae_tasks = {}
    /\ append_requests = {}
    /\ append_responses = {}
    /\ elected = {}
    /\ timeouts = 0
    /\ refused = FALSE
    /\ rpc = NoCall
    /\ acked = [i \in all_nodes |-> [j \in all_nodes |-> NoAck]]
    /\ stopped = {}
    /\ committed = {}

Init == __init__(Cluster)

\* ------------------------------------------------------------ state machine
\* command.startswith(prefix)
StartsWith(cmd, prefix) ==
    /\ Len(cmd) >= Len(prefix)
    /\ SubSeq(cmd, 1, Len(prefix)) = prefix

\* position of the first " " of s, 0 when there is none
FirstSpace(s) ==
    IF \E k \in 1..Len(s) : s[k] = " "
    THEN CHOOSE k \in 1..Len(s) : s[k] = " " /\ \A m \in 1..(k - 1) : s[m] # " "
    ELSE 0

\* an _apply_entry that keeps the items the dict already holds
_apply_entry_keep(sm, entry) ==
    IF StartsWith(entry.command, <<"S", "E", "T", " ">>)
    THEN LET rest == SubSeq(entry.command, 5, Len(entry.command))
             sp == FirstSpace(rest)
         IN IF sp = 0
            THEN sm
            ELSE sm \cup {<<SubSeq(rest, 1, sp - 1), SubSeq(rest, sp + 1, Len(rest))>>}
    ELSE sm

\* RaftNode._apply_entry: the dict after applying one entry
_apply_entry(sm, entry) ==
    IF StartsWith(entry.command, <<"S", "E", "T", " ">>)
    THEN LET rest == SubSeq(entry.command, 5, Len(entry.command))
             sp == FirstSpace(rest)
         IN IF sp = 0
            THEN sm
            ELSE LET key == SubSeq(rest, 1, sp - 1)
                     value == SubSeq(rest, sp + 1, Len(rest))
                 IN {kv \in sm : kv[1] # key} \cup {<<key, value>>}
    ELSE sm

\* RaftNode._apply_entries: the loop, from last_applied la up to commit index ci
RECURSIVE ApplyLoop(_, _, _, _)
ApplyLoop(sm, lg, la, ci) ==
    IF la < ci
    THEN LET n == la + 1
         IN ApplyLoop(IF n < Len(lg) THEN _apply_entry(sm, lg[n + 1]) ELSE sm, lg, n, ci)
    ELSE [sm |-> sm, la |-> la]

\* ------------------------------------------------------------ log helpers
LastLogIndex(lg) == Len(lg) - 1

LastLogTerm(lg) == IF Len(lg) > 0 THEN lg[Len(lg)].term ELSE 0

\* a LogEntry whose index is one past the position it is appended at
NewEntryShifted(i, command) ==
    [term |-> current_term[i], index |-> Len(log[i]) + 1, command |-> command]

\* LogEntry(term=current_term, index=len(log), command=command)
NewEntry(i, command) ==
    [term |-> current_term[i], index |-> Len(log[i]), command |-> command]

\* ------------------------------------------------------------ raft loop
\* a raft loop that takes its next tick while the last one is still awaited
LoopReadyAlways(i) == TRUE

\* The raft loop of node i can take its next tick: it is not suspended in the
\* gather of _request_votes, and the tasks its last tick created have started.
LoopReady(i) ==
    /\ ~vote_round[i].active
    /\ \A j \in all_nodes : <<i, j>> \notin ae_tasks

Pending == [status |-> "pending", term |-> 0, vote_granted |-> FALSE]

NoReply == [status |-> "none", term |-> 0, vote_granted |-> FALSE]

\* RaftNode._request_votes up to the gather: the VoteRequest built from the
\* state lg/term of node i, one send task per other node; without any task
\* nothing is gathered and _process_vote_responses is not called
_request_votes(i, term, lg) ==
    IF Others(i) = {}
    THEN UNCHANGED vote_round
    ELSE vote_round' = [vote_round EXCEPT ![i] =
             [active |-> TRUE,
              term |-> term,
              last_log_index |-> LastLogIndex(lg),
              last_log_term |-> LastLogTerm(lg),
              resp |-> [j \in Others(i) |-> Pending]]]

\* RaftNode._handle_follower_state with the election timeout elapsed:
\* _become_candidate
_become_candidate(i) ==
    /\ state[i] = FOLLOWER
    /\ LoopReady(i)
    /\ state' = [state EXCEPT ![i] = CANDIDATE]
    /\ current_term' = [current_term EXCEPT ![i] = current_term[i] + 1]
    /\ voted_for' = [voted_for EXCEPT ![i] = i]
    /\ _request_votes(i, current_term[i] + 1, log[i])
    /\ UNCHANGED <<log, commit_index, last_applied, next_index, match_index,
                   state_machine, ae_tasks, append_requests, append_responses, elected, acked, committed>>

\* RaftNode._handle_candidate_state with the election timeout elapsed
_handle_candidate_state(i) ==
    /\ state[i] = CANDIDATE
    /\ LoopReady(i)
    /\ _request_votes(i, current_term[i], log[i])
    /\ UNCHANGED <<nodeVars, ae_tasks, append_requests, append_responses, elected, acked, committed>>

\* a can_vote that does not compare the term of the request
CanVoteStale(req_term, candidate, term, vf) == vf = None \/ vf = candidate

\* can_vote without the voted_for test
CanVoteAny(req_term, candidate, term, vf) == req_term >= term

\* can_vote of RaftNode._handle_vote_request, evaluated after the term update:
\* term and vf are the receiver's current_term and voted_for at that point
CanVote(req_term, candidate, term, vf) ==
    /\ req_term >= term
    /\ (vf = None \/ vf = candidate)

\* a receiver that does not compare the logs
UpToDateAny(req_last_log_term, req_last_log_index, lg) == TRUE

\* the candidate's log is at least as up-to-date as the receiver's log lg
UpToDate(req_last_log_term, req_last_log_index, lg) ==
    \/ req_last_log_term > LastLogTerm(lg)
    \/ (req_last_log_term = LastLogTerm(lg) /\ req_last_log_index >= LastLogIndex(lg))

\* does node j grant the pending vote request of candidate i: the branch of
\* RaftNode._handle_vote_request that sets voted_for and resets
\* last_heartbeat_time, the election timer of j
VoteGranted(i, j) ==
    LET req == vote_round[i]
        higher == req.term > current_term[j]
        term == IF higher THEN req.term ELSE current_term[j]
        vf == IF higher THEN None ELSE voted_for[j]
    IN /\ CanVote(req.term, i, term, vf)
       /\ UpToDate(req.last_log_term, req.last_log_index, log[j])

\* RaftNode._handle_vote_request on node j for the request of candidate i;
\* answered is FALSE when the reply does not reach the candidate in time
_handle_vote_request(i, j, answered) ==
    /\ vote_round[i].active
    /\ j \in Others(i)
    /\ vote_round[i].resp[j].status = "pending"
    /\ LET req == vote_round[i]
           higher == req.term > current_term[j]
           term == IF higher THEN req.term ELSE current_term[j]
           vf == IF higher THEN None ELSE voted_for[j]
           granted == VoteGranted(i, j)
           reply == [status |-> "reply", term |-> term, vote_granted |-> granted]
       IN /\ current_term' = [current_term EXCEPT ![j] = term]
          /\ state' = [state EXCEPT ![j] = IF higher THEN FOLLOWER ELSE state[j]]
          /\ voted_for' = [voted_for EXCEPT ![j] = IF granted THEN i ELSE vf]
          /\ vote_round' = [vote_round EXCEPT ![i].resp[j] =
                               IF answered THEN reply ELSE NoReply]
    /\ UNCHANGED <<log, commit_index, last_applied, next_index, match_index,
                   state_machine, ae_tasks, append_requests, append_responses, elected, acked, committed>>

\* NetworkComm.send_message_with_response returning None without the request
\* having been handled (connect refused or timed out)
VoteRequestFails(i, j) ==
    /\ vote_round[i].active
    /\ j \in Others(i)
    /\ vote_round[i].resp[j].status = "pending"
    /\ vote_round' = [vote_round EXCEPT ![i].resp[j] = NoReply]
    /\ UNCHANGED <<nodeVars, ae_tasks, append_requests, append_responses, elected, acked, committed>>

\* a count of the granted replies that does not look at their term
VotesGrantedAnyTerm(i) ==
    Cardinality({j \in Others(i) :
        /\ vote_round[i].resp[j].status = "reply"
        /\ vote_round[i].resp[j].vote_granted})

\* votes_granted of RaftNode._process_vote_responses
VotesGranted(i) ==
    Cardinality({j \in Others(i) :
        /\ vote_round[i].resp[j].status = "reply"
        /\ vote_round[i].resp[j].vote_granted
        /\ vote_round[i].resp[j].term = current_term[i]})

\* max_term of RaftNode._process_vote_responses
MaxTermSeen(i) ==
    LET terms == {current_term[i]} \cup
                 {vote_round[i].resp[j].term : j \in
                     {k \in Others(i) : vote_round[i].resp[k].status = "reply"}}
    IN CHOOSE t \in terms : \A u \in terms : u <= t

\* a quorum that is one vote short
RequiredVotesShort == Cardinality(all_nodes) \div 2

\* required_votes = len(self.all_nodes) // 2 + 1
RequiredVotes == (Cardinality(all_nodes) \div 2) + 1

\* heartbeats that create no task
_send_heartbeats_none(i) == ae_tasks

\* RaftNode._send_heartbeats: one _send_append_entries task per other node
_send_heartbeats(i) == ae_tasks \cup {<<i, j>> : j \in Others(i)}

\* RaftNode._process_vote_responses, run when the gather has every result;
\* includes _become_leader
_process_vote_responses(i) ==
    /\ vote_round[i].active
    /\ \A j \in Others(i) : vote_round[i].resp[j].status # "pending"
    /\ vote_round' = [vote_round EXCEPT ![i] = NoRound]
    /\ IF MaxTermSeen(i) > current_term[i]
       THEN /\ current_term' = [current_term EXCEPT ![i] = MaxTermSeen(i)]
            /\ state' = [state EXCEPT ![i] = FOLLOWER]
            /\ voted_for' = [voted_for EXCEPT ![i] = None]
            /\ UNCHANGED <<next_index, match_index, ae_tasks, elected>>
       ELSE IF VotesGranted(i) + 1 >= RequiredVotes
       THEN /\ state' = [state EXCEPT ![i] = LEADER]
            /\ next_index' = [next_index EXCEPT ![i] = [j \in all_nodes |-> Len(log[i])]]
            /\ match_index' = [match_index EXCEPT ![i] = [j \in all_nodes |-> -1]]
            /\ ae_tasks' = _send_heartbeats(i)
            /\ elected' = elected \cup {<<current_term[i], i>>}
            /\ UNCHANGED <<current_term, voted_for>>
       ELSE UNCHANGED <<current_term, state, voted_for, next_index, match_index,
                        ae_tasks, elected>>
    /\ UNCHANGED <<log, commit_index, last_applied, state_machine,
                   append_requests, append_responses, acked, committed>>

\* ------------------------------------------------------------ replication
\* the smallest match index: an index every node of the cluster has reached
LowestIndex(i) ==
    LET vals == {match_index[i][j] : j \in all_nodes}
    IN CHOOSE v \in vals : \A w \in vals : v <= w

\* majority_index of RaftNode._update_commit_index: the element at position
\* len // 2 of the match indices of all nodes sorted in descending order,
\* that is the largest value v with more than len // 2 match indices >= v
MajorityIndex(i) ==
    LET vals == {match_index[i][j] : j \in all_nodes}
        half == Cardinality(all_nodes) \div 2
    IN CHOOSE v \in vals :
          /\ Cardinality({j \in all_nodes : match_index[i][j] >= v}) > half
          /\ \A w \in vals :
                Cardinality({j \in all_nodes : match_index[i][j] >= w}) > half => w <= v

\* RaftNode._update_commit_index: the new commit_index of node i
_update_commit_index(i) ==
    IF state[i] # LEADER
    THEN commit_index[i]
    ELSE IF /\ MajorityIndex(i) > commit_index[i]
            /\ MajorityIndex(i) < Len(log[i])
            /\ log[i][MajorityIndex(i) + 1].term = current_term[i]
         THEN MajorityIndex(i)
         ELSE commit_index[i]

\* committed after the commit_index of node p has gone to ci, its log being lg
\* and its current_term term
Commits(p, ci, lg, term) ==
    committed \cup {[index |-> k, entry |-> lg[k + 1], term |-> term] :
                       k \in {m \in (commit_index[p] + 1)..ci : m < Len(lg)}}

\* RaftNode._handle_leader_state; heartbeat is TRUE when HEARTBEAT_INTERVAL has
\* elapsed since last_heartbeat_time
_handle_leader_state(i, heartbeat) ==
    /\ state[i] = LEADER
    /\ LoopReady(i)
    /\ ae_tasks' = IF heartbeat THEN _send_heartbeats(i) ELSE ae_tasks
    /\ LET ci == _update_commit_index(i)
           applied == ApplyLoop(state_machine[i], log[i], last_applied[i], ci)
       IN /\ commit_index' = [commit_index EXCEPT ![i] = ci]
          /\ last_applied' = [last_applied EXCEPT ![i] = applied.la]
          /\ state_machine' = [state_machine EXCEPT ![i] = applied.sm]
    /\ UNCHANGED <<current_term, voted_for, log, state, next_index, match_index,
                   vote_round, append_requests, append_responses, elected, acked>>
    /\ committed' = Commits(i, _update_commit_index(i), log[i], current_term[i])

\* The AppendEntriesRequest RaftNode._send_append_entries builds for target j
AppendRequest(i, j) ==
    LET next_idx == IF next_index[i][j] = Absent THEN Len(log[i]) ELSE next_index[i][j]
        prev_log_index == next_idx - 1
    IN [src |-> i,
        dst |-> j,
        term |-> current_term[i],
        prev_log_index |-> prev_log_index,
        prev_log_term |-> IF prev_log_index >= 0 THEN log[i][prev_log_index + 1].term ELSE 0,
        entries |-> IF next_idx < Len(log[i])
                    THEN SubSeq(log[i], next_idx + 1, Len(log[i]))
                    ELSE << >>,
        leader_commit |-> commit_index[i]]

\* self.log[prev_log_index] raises IndexError: the task ends without sending
SendRaises(i, j) ==
    LET next_idx == IF next_index[i][j] = Absent THEN Len(log[i]) ELSE next_index[i][j]
    IN next_idx - 1 >= Len(log[i])

\* RaftNode._send_append_entries up to the await of the response: the task
\* created for target j starts; sent is FALSE when the request never reaches j
_send_append_entries(i, j, sent) ==
    /\ <<i, j>> \in ae_tasks
    /\ ae_tasks' = ae_tasks \ {<<i, j>>}
    /\ IF sent /\ ~SendRaises(i, j)
       THEN /\ AppendRequest(i, j) \notin append_requests
            /\ append_requests' = append_requests \cup {AppendRequest(i, j)}
       ELSE UNCHANGED append_requests
    /\ UNCHANGED <<nodeVars, vote_round, append_responses, elected, acked, committed>>

\* a loop that appends every entry of the request without looking at the log
AppendLoopBlind(lg, start, entries, k) ==
    lg \o [n \in 1..Len(entries) |-> [term |-> entries[n].term,
                                      index |-> entries[n].index,
                                      command |-> entries[n].command]]

\* The log of RaftNode._handle_append_entries after the loop over
\* append_req.entries from entry k on; start is start_index
RECURSIVE AppendLoop(_, _, _, _)
AppendLoop(lg, start, entries, k) ==
    IF k > Len(entries)
    THEN lg
    ELSE LET log_index == start + k - 1
             new_entry == [term |-> entries[k].term,
                           index |-> entries[k].index,
                           command |-> entries[k].command]
             next_lg == IF log_index < Len(lg)
                        THEN IF lg[log_index + 1].term # entries[k].term
                             THEN Append(SubSeq(lg, 1, log_index), new_entry)
                             ELSE lg
                        ELSE Append(lg, new_entry)
         IN AppendLoop(next_lg, start, entries, k + 1)

\* a consistency check that looks at the length of the log only
LogOkNoTerm(req, lg) ==
    \/ req.prev_log_index < 0
    \/ req.prev_log_index < Len(lg)

\* the consistency check of RaftNode._handle_append_entries
LogOk(req, lg) ==
    \/ req.prev_log_index < 0
    \/ /\ req.prev_log_index < Len(lg)
       /\ lg[req.prev_log_index + 1].term = req.prev_log_term

\* a receiver that takes over a term only when it is two or more ahead
AdoptsTermLate(req_term, term) == req_term > term + 1

\* a receiver that takes over every term that differs from its own
AdoptsTermAny(req_term, term) == req_term # term

\* the first step of RaftNode._handle_append_entries: does the receiver, whose
\* current_term is term, adopt the term of the request
AdoptsTerm(req_term, term) == req_term > term

\* RaftNode._handle_append_entries on node req.dst; answered is FALSE when the
\* reply does not reach the sender in time
_handle_append_entries(req, answered) ==
    /\ req \in append_requests
    /\ LET j == req.dst
           higher == AdoptsTerm(req.term, current_term[j])
           term == IF higher THEN req.term ELSE current_term[j]
           ok == LogOk(req, log[j])
           lg == IF ok
                 THEN AppendLoop(log[j], req.prev_log_index + 1, req.entries, 1)
                 ELSE log[j]
           ci == IF ok /\ req.leader_commit > commit_index[j]
                 THEN Min(req.leader_commit, Len(lg) - 1)
                 ELSE commit_index[j]
           applied == IF ok /\ req.leader_commit > commit_index[j]
                      THEN ApplyLoop(state_machine[j], lg, last_applied[j], ci)
                      ELSE [sm |-> state_machine[j], la |-> last_applied[j]]
           reply == [src |-> j,
                     dst |-> req.src,
                     term |-> term,
                     success |-> ok,
                     match_index |-> IF ok
                                     THEN req.prev_log_index + 1 + Len(req.entries) - 1
                                     ELSE -1]
       IN /\ current_term' = [current_term EXCEPT ![j] = term]
          /\ state' = [state EXCEPT ![j] = IF higher THEN FOLLOWER ELSE state[j]]
          /\ voted_for' = [voted_for EXCEPT ![j] = IF higher THEN None ELSE voted_for[j]]
          /\ log' = [log EXCEPT ![j] = lg]
          /\ commit_index' = [commit_index EXCEPT ![j] = ci]
          /\ last_applied' = [last_applied EXCEPT ![j] = applied.la]
          /\ state_machine' = [state_machine EXCEPT ![j] = applied.sm]
          /\ append_requests' = append_requests \ {req}
          /\ append_responses' = IF answered
                                 THEN append_responses \cup {reply}
                                 ELSE append_responses
          /\ committed' = Commits(j, ci, lg, term)
    /\ UNCHANGED <<next_index, match_index, vote_round, ae_tasks, elected, acked>>

\* acked after node resp.dst has processed resp: a success response with a
\* match_index of 0 or more is noted under the current term of the node
Ack(resp) ==
    LET i == resp.dst
        j == resp.src
    IN IF resp.term > current_term[i] \/ ~resp.success \/ resp.match_index < 0
       THEN acked
       ELSE [acked EXCEPT ![i][j] =
                IF acked[i][j].term = current_term[i] /\ acked[i][j].index > resp.match_index
                THEN acked[i][j]
                ELSE [term |-> current_term[i], index |-> resp.match_index]]

\* RaftNode._process_append_response on node resp.dst for the reply of resp.src
_process_append_response(resp) ==
    /\ resp \in append_responses
    /\ append_responses' = append_responses \ {resp}
    /\ acked' = Ack(resp)
    /\ LET i == resp.dst
           j == resp.src
       IN IF resp.term > current_term[i]
          THEN /\ current_term' = [current_term EXCEPT ![i] = resp.term]
               /\ state' = [state EXCEPT ![i] = FOLLOWER]
               /\ voted_for' = [voted_for EXCEPT ![i] = None]
               /\ UNCHANGED <<next_index, match_index>>
          ELSE /\ UNCHANGED <<current_term, state, voted_for>>
               /\ IF resp.success
                  THEN IF resp.match_index >= 0
                       THEN /\ match_index' = [match_index EXCEPT ![i][j] = resp.match_index]
                            /\ next_index' = [next_index EXCEPT ![i][j] = resp.match_index + 1]
                       ELSE UNCHANGED <<next_index, match_index>>
                  ELSE /\ next_index' = [next_index EXCEPT ![i][j] =
                                            IF next_index[i][j] > 0
                                            THEN next_index[i][j] - 1
                                            ELSE next_index[i][j]]
                       /\ UNCHANGED match_index
    /\ UNCHANGED <<log, commit_index, last_applied, state_machine, vote_round,
                   ae_tasks, append_requests, elected, committed>>

\* ------------------------------------------------------------ command API
\* an append_entry that takes the command in every state
append_entry_accepts(i) == TRUE

\* the return value of RaftNode.append_entry on node i
append_entry_result(i) == state[i] = LEADER

\* RaftNode.append_entry(command) called on node i
append_entry(i, command) ==
    /\ IF append_entry_result(i)
       THEN log' = [log EXCEPT ![i] = Append(log[i], NewEntry(i, command))]
       ELSE UNCHANGED log
    /\ refused' = (refused \/ ~append_entry_result(i))
    /\ UNCHANGED <<current_term, voted_for, commit_index, last_applied, state,
                   next_index, match_index, state_machine, vote_round, ae_tasks,
                   append_requests, append_responses, elected, acked, committed>>

\* ------------------------------------------------------------ specification
\* number of AppendEntries requests and responses on the wire
InFlight == Cardinality(append_requests) + Cardinality(append_responses)

\* an election timeout fires on a follower
Timeout ==
    /\ timeouts < MaxTimeouts
    /\ timeouts' = timeouts + 1
    /\ \E i \in all_nodes : _become_candidate(i)
    /\ UNCHANGED <<refused, all_nodes, rpc, stopped>>

\* a candidate's election timeout fires
RetryElection ==
    /\ \E i \in all_nodes : _handle_candidate_state(i)
    /\ UNCHANGED <<timeouts, refused, all_nodes, rpc, stopped>>

DeliverVoteRequest ==
    /\ \E i \in all_nodes, j \in all_nodes, answered \in BOOLEAN :
          _handle_vote_request(i, j, answered)
    /\ UNCHANGED <<timeouts, refused, all_nodes, rpc, stopped>>

LoseVoteRequest ==
    /\ \E i \in all_nodes, j \in all_nodes : VoteRequestFails(i, j)
    /\ UNCHANGED <<timeouts, refused, all_nodes, rpc, stopped>>

GatherVotes ==
    /\ \E i \in all_nodes : _process_vote_responses(i)
    /\ UNCHANGED <<timeouts, refused, all_nodes, rpc, stopped>>

LeaderTick ==
    /\ \E i \in all_nodes, heartbeat \in BOOLEAN : _handle_leader_state(i, heartbeat)
    /\ UNCHANGED <<timeouts, refused, all_nodes, rpc, stopped>>

SendAppendEntries ==
    /\ InFlight < MaxInFlight
    /\ \E i \in all_nodes, j \in all_nodes : _send_append_entries(i, j, TRUE)
    /\ UNCHANGED <<timeouts, refused, all_nodes, rpc, stopped>>

FailAppendEntries ==
    /\ \E i \in all_nodes, j \in all_nodes : _send_append_entries(i, j, FALSE)
    /\ UNCHANGED <<timeouts, refused, all_nodes, rpc, stopped>>

DeliverAppendEntries ==
    /\ \E req \in append_requests, answered \in BOOLEAN :
          _handle_append_entries(req, answered)
    /\ UNCHANGED <<timeouts, refused, all_nodes, rpc, stopped>>

DeliverAppendResponse ==
    /\ \E resp \in append_responses : _process_append_response(resp)
    /\ UNCHANGED <<timeouts, refused, all_nodes, rpc, stopped>>

\* a client calls append_entry on the node it found to be leader
Submit ==
    /\ \E i \in all_nodes, command \in Commands :
          /\ state[i] = LEADER
          /\ Len(log[i]) < MaxLog
          /\ append_entry(i, command)
    /\ UNCHANGED <<timeouts, all_nodes, rpc, stopped>>

Next ==
    \/ Timeout
    \/ RetryElection
    \/ DeliverVoteRequest
    \/ LoseVoteRequest
    \/ GatherVotes
    \/ LeaderTick
    \/ SendAppendEntries
    \/ FailAppendEntries
    \/ DeliverAppendEntries
    \/ DeliverAppendResponse
    \/ Submit

Spec == Init /\ [][Next]_vars


\* ------------------------------------------------- late AppendEntries scenario
(***************************************************************************)
(* SpecStale follows the cluster from LateState, a state of Spec (TLC      *)
(* reaches it under Spec: the invariant LateStateUnreached is violated     *)
(* there): node 1 led term 1, appended one entry and sent it to node 2;    *)
(* before that request is handled node 2 has won term 2 with the vote of   *)
(* node 3, and node 1 has stepped down on the vote request of node 2.      *)
(* From there the network is prompt except for what is named slow: the     *)
(* request of the deposed leader, and the replies of node 3 to node 2.     *)
(* A created send task starts before anything else happens.                *)
(***************************************************************************)
LateEntry == [term |-> 1, index |-> 0, command |-> CmdSet]

LateRequest ==
    [src |-> 1, dst |-> 2, term |-> 1, prev_log_index |-> -1, prev_log_term |-> 0,
     entries |-> <<LateEntry>>, leader_commit |-> -1]

LateState ==
    /\ all_nodes = Cluster
    /\ current_term = [i \in all_nodes |-> 2]
    /\ voted_for = [i \in all_nodes |-> IF i = 1 THEN None ELSE 2]
    /\ log = [i \in all_nodes |-> IF i = 1 THEN <<LateEntry>> ELSE << >>]
    /\ commit_index = [i \in all_nodes |-> -1]
    /\ last_applied = [i \in all_nodes |-> -1]
    /\ state = [i \in all_nodes |-> IF i = 2 THEN LEADER ELSE FOLLOWER]
    /\ next_index = [i \in all_nodes |-> [j \in all_nodes |-> IF i = 3 THEN Absent ELSE 0]]
    /\ match_index = [i \in all_nodes |-> [j \in all_nodes |-> -1]]
    /\ state_machine = [i \in all_nodes |-> {}]
    /\ vote_round = [i \in all_nodes |-> NoRound]
    /\ ae_tasks = {}
    /\ append_requests = {LateRequest}
    /\ append_responses = {}
    /\ elected = {<<1, 1>>, <<2, 2>>}
    /\ timeouts = 2
    /\ refused = FALSE
    /\ rpc = NoCall
    /\ acked = [i \in all_nodes |-> [j \in all_nodes |-> NoAck]]
    /\ stopped = {}
    /\ committed = {}

LateStateUnreached == ~LateState

SlowRequests == {req \in append_requests : req.src = 1}

SlowResponses == {resp \in append_responses : resp.src = 3 /\ resp.dst = 2}

\* no send task is waiting to start and nothing prompt is on the wire
Quiet ==
    /\ ae_tasks = {}
    /\ append_requests = SlowRequests
    /\ append_responses = SlowResponses

StaleTick ==
    /\ Quiet
    /\ LeaderTick

StaleSendAppendEntries ==
    /\ InFlight < StaleMaxInFlight
    /\ \E i \in all_nodes, j \in all_nodes : _send_append_entries(i, j, TRUE)
    /\ UNCHANGED <<timeouts, refused, all_nodes, rpc, stopped>>

StalePromptRequest ==
    /\ ae_tasks = {}
    /\ \E req \in append_requests \ SlowRequests : _handle_append_entries(req, TRUE)
    /\ UNCHANGED <<timeouts, refused, all_nodes, rpc, stopped>>

StalePromptResponse ==
    /\ ae_tasks = {}
    /\ \E resp \in append_responses \ SlowResponses : _process_append_response(resp)
    /\ UNCHANGED <<timeouts, refused, all_nodes, rpc, stopped>>

StaleLateRequest ==
    /\ Quiet
    /\ \E req \in SlowRequests : _handle_append_entries(req, TRUE)
    /\ UNCHANGED <<timeouts, refused, all_nodes, rpc, stopped>>

StaleLateResponse ==
    /\ Quiet
    /\ \E resp \in SlowResponses : _process_append_response(resp)
    /\ UNCHANGED <<timeouts, refused, all_nodes, rpc, stopped>>

StaleSubmit ==
    /\ Quiet
    /\ \E i \in all_nodes, command \in Commands :
          /\ state[i] = LEADER
          /\ Len(log[i]) < StaleMaxLog
          /\ append_entry(i, command)
    /\ UNCHANGED <<timeouts, all_nodes, rpc, stopped>>

NextStale ==
    \/ StaleTick
    \/ StaleSendAppendEntries
    \/ FailAppendEntries
    \/ StalePromptRequest
    \/ StalePromptResponse
    \/ StaleLateRequest
    \/ StaleLateResponse
    \/ StaleSubmit

SpecStale == LateState /\ [][NextStale]_vars


\* ------------------------------------------------------- election, links working
(***************************************************************************)
(* SpecElection starts a cluster of three nodes, or of one node, and lets  *)
(* it run with every link working: each request is handled and each reply  *)
(* reaches its sender.  Clients call append_entry on nodes that are not    *)
(* leader, so that every log stays empty and no vote is refused for the    *)
(* log of its candidate.                                                   *)
(* Fairness: the raft loop of every node keeps running (a candidate whose  *)
(* election timeout has elapsed retries at every tick, a leader sends its  *)
(* heartbeats at every interval), every created task runs, every message   *)
(* on the wire is delivered, and in a cluster without candidate or leader  *)
(* the election timer of some follower elapses.                            *)
(***************************************************************************)
\* no node is candidate or leader: nothing resets the election timers
Idle == \A i \in all_nodes : state[i] = FOLLOWER

IdleTimeout ==
    /\ Idle
    /\ Timeout

HandleVoteRequest ==
    /\ \E i \in all_nodes, j \in all_nodes : _handle_vote_request(i, j, TRUE)
    /\ UNCHANGED <<timeouts, refused, all_nodes, rpc, stopped>>

Heartbeat ==
    /\ \E i \in all_nodes : _handle_leader_state(i, TRUE)
    /\ UNCHANGED <<timeouts, refused, all_nodes, rpc, stopped>>

HandleAppendEntries ==
    /\ \E req \in append_requests : _handle_append_entries(req, TRUE)
    /\ UNCHANGED <<timeouts, refused, all_nodes, rpc, stopped>>

\* a client calls append_entry on a node that is not the leader
SubmitElsewhere ==
    /\ \E i \in all_nodes, command \in Commands :
          /\ state[i] # LEADER
          /\ append_entry(i, command)
    /\ UNCHANGED <<timeouts, all_nodes, rpc, stopped>>

NextElection ==
    \/ Timeout
    \/ RetryElection
    \/ HandleVoteRequest
    \/ GatherVotes
    \/ Heartbeat
    \/ SendAppendEntries
    \/ HandleAppendEntries
    \/ DeliverAppendResponse
    \/ SubmitElsewhere

\* one step of node i that leaves the history counters alone
NodeStep(i, A) ==
    /\ i \in all_nodes
    /\ A
    /\ UNCHANGED <<timeouts, refused, all_nodes, rpc, stopped>>

\* the handling of the AppendEntries request node i has sent to node j
HandleRequestOf(i, j) ==
    \E req \in append_requests :
        /\ req.src = i
        /\ req.dst = j
        /\ _handle_append_entries(req, TRUE)

\* the handling of the AppendEntries response node j has sent to node i
HandleResponseOf(i, j) ==
    \E resp \in append_responses :
        /\ resp.src = j
        /\ resp.dst = i
        /\ _process_append_response(resp)

\* the raft loop of every node keeps running and every task it creates runs
LoopFairness ==
    \A i \in Cluster :
        /\ WF_vars(NodeStep(i, _handle_candidate_state(i)))
        /\ WF_vars(NodeStep(i, _process_vote_responses(i)))
        /\ WF_vars(NodeStep(i, _handle_leader_state(i, TRUE)))

\* every message between two running nodes is delivered and answered
LinkFairness ==
    \A i \in Cluster, j \in Cluster :
        /\ WF_vars(NodeStep(i, _handle_vote_request(i, j, TRUE)))
        /\ SF_vars(NodeStep(i, InFlight < MaxInFlight /\ _send_append_entries(i, j, TRUE)))
        /\ WF_vars(NodeStep(i, HandleRequestOf(i, j)))
        /\ WF_vars(NodeStep(i, HandleResponseOf(i, j)))

LinksWorkingFairness ==
    /\ WF_vars(IdleTimeout)
    /\ LoopFairness
    /\ LinkFairness

SpecElection ==
    /\ __init__(Cluster) \/ __init__(Single)
    /\ [][NextElection]_vars
    /\ LinksWorkingFairness


\* ------------------------------------------------------------ one node stopped
(***************************************************************************)
(* Node 3 has stopped: it runs no loop and handles no message, and every   *)
(* connection to it fails.  Nodes 1 and 2, a majority of the cluster, keep *)
(* running with the link between them working, under the fairness of       *)
(* SpecElection restricted to them.                                        *)
(*                                                                         *)
(* SpecMinority starts in MinorityState (a state of Spec): node 1 has won  *)
(* term 1 and its first heartbeats have been answered when follower 3      *)
(* stops.  Node 1 stays leader and clients submit commands to it.          *)
(*                                                                         *)
(* SpecFailover starts in FailoverState (a state of Spec): node 3 has won  *)
(* term 1 and its first heartbeats have been answered when it stops.  The  *)
(* election timers of the survivors elapse, at most FailoverTimeouts       *)
(* times; no command is submitted.                                         *)
(***************************************************************************)
FailoverTimeouts == 2

MinorityMaxLog == 3

Stopped == 3

Live == Cluster \ {Stopped}

\* the cluster after node l has won term 1 and its heartbeats were answered
ElectedState(l) ==
    /\ all_nodes = Cluster
    /\ current_term = [i \in all_nodes |-> 1]
    /\ voted_for = [i \in all_nodes |-> l]
    /\ log = [i \in all_nodes |-> << >>]
    /\ commit_index = [i \in all_nodes |-> -1]
    /\ last_applied = [i \in all_nodes |-> -1]
    /\ state = [i \in all_nodes |-> IF i = l THEN LEADER ELSE FOLLOWER]
    /\ next_index = [i \in all_nodes |-> [j \in all_nodes |-> IF i = l THEN 0 ELSE Absent]]
    /\ match_index = [i \in all_nodes |-> [j \in all_nodes |-> -1]]
    /\ state_machine = [i \in all_nodes |-> {}]
    /\ vote_round = [i \in all_nodes |-> NoRound]
    /\ ae_tasks = {}
    /\ append_requests = {}
    /\ append_responses = {}
    /\ elected = {<<1, l>>}
    /\ timeouts = 1
    /\ refused = FALSE
    /\ rpc = NoCall
    /\ acked = [i \in all_nodes |-> [j \in all_nodes |-> NoAck]]
    /\ stopped = {}
    /\ committed = {}

MinorityState == ElectedState(1)

MinorityStateUnreached == ~MinorityState

FailoverState == ElectedState(Stopped)

FailoverStateUnreached == ~FailoverState

LiveIdle == \A i \in Live : state[i] = FOLLOWER

LiveTimeout ==
    /\ timeouts < 1 + FailoverTimeouts
    /\ timeouts' = timeouts + 1
    /\ \E i \in Live : _become_candidate(i)
    /\ UNCHANGED <<refused, all_nodes, rpc, stopped>>

LiveIdleTimeout ==
    /\ LiveIdle
    /\ LiveTimeout

LiveRetry ==
    /\ \E i \in Live : _handle_candidate_state(i)
    /\ UNCHANGED <<timeouts, refused, all_nodes, rpc, stopped>>

LiveVoteRequest ==
    /\ \E i \in Live, j \in Live : _handle_vote_request(i, j, TRUE)
    /\ UNCHANGED <<timeouts, refused, all_nodes, rpc, stopped>>

StoppedVoteRequest ==
    /\ \E i \in Live : VoteRequestFails(i, Stopped)
    /\ UNCHANGED <<timeouts, refused, all_nodes, rpc, stopped>>

LiveGather ==
    /\ \E i \in Live : _process_vote_responses(i)
    /\ UNCHANGED <<timeouts, refused, all_nodes, rpc, stopped>>

LiveHeartbeat ==
    /\ \E i \in Live : _handle_leader_state(i, TRUE)
    /\ UNCHANGED <<timeouts, refused, all_nodes, rpc, stopped>>

LiveSend ==
    /\ InFlight < MaxInFlight
    /\ \E i \in Live, j \in Live : _send_append_entries(i, j, TRUE)
    /\ UNCHANGED <<timeouts, refused, all_nodes, rpc, stopped>>

StoppedSend ==
    /\ \E i \in Live : _send_append_entries(i, Stopped, FALSE)
    /\ UNCHANGED <<timeouts, refused, all_nodes, rpc, stopped>>

LiveAppendEntries ==
    /\ \E req \in append_requests : req.dst \in Live /\ _handle_append_entries(req, TRUE)
    /\ UNCHANGED <<timeouts, refused, all_nodes, rpc, stopped>>

LiveAppendResponse ==
    /\ \E resp \in append_responses : resp.dst \in Live /\ _process_append_response(resp)
    /\ UNCHANGED <<timeouts, refused, all_nodes, rpc, stopped>>

LiveSubmit ==
    /\ \E i \in Live, command \in Commands :
          /\ state[i] = LEADER
          /\ Len(log[i]) < MinorityMaxLog
          /\ append_entry(i, command)
    /\ UNCHANGED <<timeouts, all_nodes, rpc, stopped>>

\* the fairness of SpecElection for the running nodes; a connection to the
\* stopped node fails in bounded time
LiveFairness ==
    /\ WF_vars(LiveIdleTimeout)
    /\ \A i \in Live :
          /\ WF_vars(NodeStep(i, _handle_candidate_state(i)))
          /\ WF_vars(NodeStep(i, _process_vote_responses(i)))
          /\ WF_vars(NodeStep(i, _handle_leader_state(i, TRUE)))
          /\ WF_vars(NodeStep(i, VoteRequestFails(i, Stopped)))
          /\ WF_vars(NodeStep(i, _send_append_entries(i, Stopped, FALSE)))
    /\ \A i \in Live, j \in Live :
          /\ WF_vars(NodeStep(i, _handle_vote_request(i, j, TRUE)))
          /\ SF_vars(NodeStep(i, InFlight < MaxInFlight /\ _send_append_entries(i, j, TRUE)))
          /\ WF_vars(NodeStep(i, HandleRequestOf(i, j)))
          /\ WF_vars(NodeStep(i, HandleResponseOf(i, j)))

NextMinority ==
    \/ LiveHeartbeat
    \/ LiveSend
    \/ StoppedSend
    \/ LiveAppendEntries
    \/ LiveAppendResponse
    \/ LiveSubmit

SpecMinority == MinorityState /\ [][NextMinority]_vars /\ LiveFairness

NextFailover ==
    \/ LiveTimeout
    \/ LiveRetry
    \/ LiveVoteRequest
    \/ StoppedVoteRequest
    \/ LiveGather
    \/ LiveHeartbeat
    \/ LiveSend
    \/ StoppedSend
    \/ LiveAppendEntries
    \/ LiveAppendResponse

SpecFailover == FailoverState /\ [][NextFailover]_vars /\ LiveFairness


\* ------------------------------------------------------------ stable leader
(***************************************************************************)
(* One leader, every node running and every link working: no election      *)
(* timer elapses.  A client submits the commands of src/node_example.py to *)
(* the leader, in their order and as far as it likes.  Fairness is that of *)
(* SpecElection for the loop of the leader and for the links.              *)
(*                                                                         *)
(* SpecStable starts in MinorityState with node 3 running: node 1 has won  *)
(* term 1 with empty logs everywhere.                                      *)
(*                                                                         *)
(* SpecHeal starts in HealState (a state of Spec): node 1 led term 1 and   *)
(* appended one entry while none of its requests got through; node 2 has   *)
(* then won term 2 with the vote of node 3 and node 1 has stepped down on  *)
(* the vote request of node 2: node 1 is connected again and holds an      *)
(* entry the leader does not have.                                         *)
(***************************************************************************)
\* "SET name Alice", "SET age 30", "GET name" as sequences of characters
ExampleCommands ==
    << <<"S", "E", "T", " ", "n", "a", "m", "e", " ", "A", "l", "i", "c", "e">>,
       <<"S", "E", "T", " ", "a", "g", "e", " ", "3", "0">>,
       <<"G", "E", "T", " ", "n", "a", "m", "e">> >>

\* the state machine {"name": "Alice", "age": "30"}
ExampleMachine ==
    { << <<"n", "a", "m", "e">>, <<"A", "l", "i", "c", "e">> >>,
      << <<"a", "g", "e">>, <<"3", "0">> >> }

HealState ==
    /\ all_nodes = Cluster
    /\ current_term = [i \in all_nodes |-> 2]
    /\ voted_for = [i \in all_nodes |-> IF i = 1 THEN None ELSE 2]
    /\ log = [i \in all_nodes |-> IF i = 1 THEN <<LateEntry>> ELSE << >>]
    /\ commit_index = [i \in all_nodes |-> -1]
    /\ last_applied = [i \in all_nodes |-> -1]
    /\ state = [i \in all_nodes |-> IF i = 2 THEN LEADER ELSE FOLLOWER]
    /\ next_index = [i \in all_nodes |-> [j \in all_nodes |-> IF i = 3 THEN Absent ELSE 0]]
    /\ match_index = [i \in all_nodes |-> [j \in all_nodes |-> -1]]
    /\ state_machine = [i \in all_nodes |-> {}]
    /\ vote_round = [i \in all_nodes |-> NoRound]
    /\ ae_tasks = {}
    /\ append_requests = {}
    /\ append_responses = {}
    /\ elected = {<<1, 1>>, <<2, 2>>}
    /\ timeouts = 2
    /\ refused = FALSE
    /\ rpc = NoCall
    /\ acked = [i \in all_nodes |-> [j \in all_nodes |-> NoAck]]
    /\ stopped = {}
    /\ committed = {}

HealStateUnreached == ~HealState

\* the client of src/node_example.py: the next command of the example goes to
\* the leader
SubmitExample ==
    /\ \E i \in all_nodes :
          /\ state[i] = LEADER
          /\ Len(log[i]) < Len(ExampleCommands)
          /\ append_entry(i, ExampleCommands[Len(log[i]) + 1])
    /\ UNCHANGED <<timeouts, all_nodes, rpc, stopped>>

NextStable ==
    \/ Heartbeat
    \/ SendAppendEntries
    \/ HandleAppendEntries
    \/ DeliverAppendResponse
    \/ SubmitExample

\* with one leader a send task that waits for room on the wire gets it for
\* good once the messages before it are handled: weak fairness is enough
StableFairness ==
    /\ \A i \in Cluster : WF_vars(NodeStep(i, _handle_leader_state(i, TRUE)))
    /\ \A i \in Cluster : \A j \in Cluster \ {i} :
          /\ WF_vars(NodeStep(i, InFlight < MaxInFlight /\ _send_append_entries(i, j, TRUE)))
          /\ WF_vars(NodeStep(i, HandleRequestOf(i, j)))
          /\ WF_vars(NodeStep(i, HandleResponseOf(i, j)))

SpecStable == MinorityState /\ [][NextStable]_vars /\ StableFairness

SpecHeal == HealState /\ [][NextStable]_vars /\ StableFairness


\* ------------------------------------------------------------ properties
\* the entry at log index idx (0-based) of node p
EntryAt(p, idx) == log[p][idx + 1]

\* C1: election safety: in every term at most one node ever transitions to
\* leader, whatever the interleaving of timeouts, vote requests, replies,
\* lost and delayed messages.
C1_ElectionSafety ==
    \A e1 \in elected, e2 \in elected : e1[1] = e2[1] => e1[2] = e2[2]

\* a node has become leader of a term in which another node is a candidate
\* that voted for itself
C1_Witness ==
    \E i \in all_nodes, j \in all_nodes :
        /\ i # j
        /\ state[i] = LEADER
        /\ <<current_term[i], i>> \in elected
        /\ state[j] = CANDIDATE
        /\ current_term[j] = current_term[i]
        /\ voted_for[j] = j

\* C2: state machine safety: two nodes whose commit_index both cover index idx
\* hold the same entry at idx.
C2_StateMachineSafety ==
    \A p \in all_nodes, q \in all_nodes :
        \A idx \in 0..(Min(Len(log[p]), Len(log[q])) - 1) :
            (idx <= commit_index[p] /\ idx <= commit_index[q]) =>
                EntryAt(p, idx) = EntryAt(q, idx)

\* C3: log matching: if the logs of two nodes hold an entry of the same term at
\* index idx, the two logs are identical at every index <= idx.
C3_LogMatching ==
    \A p \in all_nodes, q \in all_nodes :
        \A idx \in 0..(Min(Len(log[p]), Len(log[q])) - 1) :
            EntryAt(p, idx).term = EntryAt(q, idx).term =>
                SubSeq(log[p], 1, idx + 1) = SubSeq(log[q], 1, idx + 1)

\* C4: no committed entry is overwritten: no step of a node removes or replaces
\* a log entry at an index <= its own commit_index.
C4_CommittedKept ==
    [][\A i \in all_nodes :
          \A idx \in 0..(Len(log[i]) - 1) :
              idx <= commit_index[i] =>
                  /\ idx < Len(log'[i])
                  /\ log'[i][idx + 1] = EntryAt(i, idx)]_vars

\* C5: commit_index never decreases on any node, across every step.
C5_CommitMonotonic ==
    [][\A i \in all_nodes : commit_index'[i] >= commit_index[i]]_vars

\* C6: on every node, in every reachable state, last_applied <= commit_index.
C6_AppliedWithinCommit ==
    \A i \in all_nodes : last_applied[i] <= commit_index[i]

\* C7: a node votes for at most one candidate per term: once voted_for is set
\* and while current_term stays the same, voted_for does not change.
C7_OneVotePerTerm ==
    [][\A j \in all_nodes :
          (voted_for[j] # None /\ current_term'[j] = current_term[j]) =>
              voted_for'[j] = voted_for[j]]_vars

\* a node that has voted has answered, in the same term, the vote request of
\* another candidate
C7_Witness ==
    \E i \in all_nodes, j \in all_nodes :
        /\ i # j
        /\ vote_round[i].active
        /\ vote_round[i].resp[j].status = "reply"
        /\ vote_round[i].resp[j].term = vote_round[i].term
        /\ current_term[j] = vote_round[i].term
        /\ voted_for[j] # None
        /\ voted_for[j] # i

\* C8: leader append-only: a step that leaves a node leader of the same term
\* removes or replaces none of the entries of its log.
C8_LeaderAppendOnly ==
    [][\A i \in all_nodes :
          (state[i] = LEADER /\ state'[i] = LEADER /\ current_term'[i] = current_term[i]) =>
              /\ Len(log'[i]) >= Len(log[i])
              /\ SubSeq(log'[i], 1, Len(log[i])) = log[i]]_vars

\* C9: current_term starts at 0 on every node and never decreases, across
\* every step.
C9_TermMonotonic ==
    /\ \A i \in all_nodes : current_term[i] = 0
    /\ [][\A i \in all_nodes : current_term'[i] >= current_term[i]]_vars

\* a node has answered an AppendEntries request with a term above the term of
\* the node that sent it
C9_Witness ==
    \E resp \in append_responses :
        /\ resp.term > current_term[resp.dst]
        /\ current_term[resp.src] = resp.term

\* C10: append_entry on a leader returns true and appends exactly one entry,
\* with term = current_term and index = the previous len(log), so that
\* successive calls get consecutive indices; it changes nothing else.
C10_SubmitOnLeader ==
    [][\A i \in all_nodes, command \in Commands :
          (state[i] = LEADER /\ append_entry(i, command)) =>
              /\ append_entry_result(i)
              /\ log'[i] = Append(log[i], [term |-> current_term[i],
                                           index |-> Len(log[i]),
                                           command |-> command])
              /\ \A j \in all_nodes \ {i} : log'[j] = log[j]
              /\ UNCHANGED <<current_term, voted_for, state, commit_index,
                             last_applied, next_index, match_index,
                             state_machine>>]_vars

\* a leader holds two entries of its own term, appended one after the other
C10_Witness ==
    \E i \in all_nodes :
        /\ state[i] = LEADER
        /\ Len(log[i]) >= 2
        /\ \A k \in 1..2 : log[i][k] = [term |-> current_term[i],
                                        index |-> k - 1,
                                        command |-> CmdSet]

\* C11: append_entry on a node whose state is follower or candidate returns
\* false and leaves the log and every other protocol variable unchanged.
C11_SubmitOnNonLeader ==
    [][\A i \in all_nodes, command \in Commands :
          (state[i] \in {FOLLOWER, CANDIDATE} /\ append_entry(i, command)) =>
              /\ ~append_entry_result(i)
              /\ refused'
              /\ UNCHANGED <<nodeVars, vote_round, ae_tasks, append_requests,
                             append_responses>>]_vars

\* append_entry has returned False in a cluster that never had a leader and
\* holds a candidate as well as a follower
C11_Witness ==
    /\ refused
    /\ elected = {}
    /\ \E i \in all_nodes : state[i] = CANDIDATE
    /\ \E i \in all_nodes : state[i] = FOLLOWER
    /\ \A i \in all_nodes : log[i] = << >>

\* C16: a cluster configured with exactly one node eventually has that node
\* in state leader with current_term >= 1, and append_entry on it then
\* returns true.
C16_SingletonLeader ==
    (all_nodes = Single) =>
        <>(\E i \in all_nodes : /\ state[i] = LEADER
                                /\ current_term[i] >= 1
                                /\ append_entry_result(i))

\* C17: with three nodes started and all links working the cluster eventually
\* reaches and stays in a state with exactly one leader, two followers and
\* one common current_term.
C17_ElectionOutcome ==
    (all_nodes = Cluster) =>
        <>[](\E l \in all_nodes :
                /\ state[l] = LEADER
                /\ \A j \in all_nodes \ {l} : state[j] = FOLLOWER
                /\ \A j \in all_nodes : current_term[j] = current_term[l])

\* C12: an AppendEntries request whose term is lower than the current_term of
\* its receiver is answered with that current_term and success=false, and
\* leaves the receiver's log, commit_index, last_applied and state machine
\* unchanged.
C12_StaleAppendRejected ==
    [][\A req \in append_requests :
          (req.term < current_term[req.dst] /\ _handle_append_entries(req, TRUE)) =>
              /\ \E resp \in append_responses' :
                    /\ resp.src = req.dst
                    /\ resp.dst = req.src
                    /\ resp.term = current_term[req.dst]
                    /\ ~resp.success
              /\ log'[req.dst] = log[req.dst]
              /\ commit_index'[req.dst] = commit_index[req.dst]
              /\ last_applied'[req.dst] = last_applied[req.dst]
              /\ state_machine'[req.dst] = state_machine[req.dst]]_vars

\* C13: a vote request whose term is lower than the current_term of its
\* receiver is answered with vote_granted=false and that current_term, and
\* leaves the receiver's current_term, voted_for and state unchanged; the
\* granting branch, the only one that resets last_heartbeat_time, is not taken.
C13_StaleVoteRejected ==
    [][\A i \in all_nodes, j \in all_nodes :
          (/\ vote_round[i].active
           /\ vote_round[i].term < current_term[j]
           /\ _handle_vote_request(i, j, TRUE)) =>
              /\ ~VoteGranted(i, j)
              /\ vote_round'[i].resp[j] = [status |-> "reply",
                                           term |-> current_term[j],
                                           vote_granted |-> FALSE]
              /\ current_term'[j] = current_term[j]
              /\ voted_for'[j] = voted_for[j]
              /\ state'[j] = state[j]]_vars

\* a candidate holds the reply of a node that has not voted in its own, higher
\* term: the request was of a lower term and the node was free to vote
C13_Witness ==
    \E i \in all_nodes, j \in all_nodes :
        /\ i # j
        /\ vote_round[i].active
        /\ vote_round[i].resp[j].status = "reply"
        /\ vote_round[i].resp[j].term > vote_round[i].term
        /\ ~vote_round[i].resp[j].vote_granted
        /\ current_term[j] = vote_round[i].resp[j].term
        /\ voted_for[j] = None

\* C20: entries are applied in strictly increasing index order without gaps or
\* repeats: last_applied never decreases, every index it passes holds an
\* entry of the log, the entries applied before stay at their indices, and the
\* state machine changes by exactly the entries at the indices passed.
C20_AppliedInOrder ==
    [][\A i \in all_nodes :
          /\ last_applied'[i] >= last_applied[i]
          /\ last_applied'[i] < Len(log'[i])
          /\ \A idx \in 0..last_applied[i] :
                /\ idx < Len(log[i])
                /\ log'[i][idx + 1] = EntryAt(i, idx)
          /\ state_machine'[i] =
                ApplyLoop(state_machine[i], log'[i], last_applied[i],
                          last_applied'[i]).sm]_vars

\* C14: with a minority of the nodes unreachable (1 of 3 stopped) and the
\* majority exchanging messages fairly, an entry the leader has accepted in
\* its current term is eventually covered by the leader's commit_index and
\* applied on the nodes of the majority.
C14_MajorityProgress ==
    \A l \in Live, idx \in 0..(MinorityMaxLog - 1) :
        (/\ state[l] = LEADER
         /\ Len(log[l]) > idx
         /\ log[l][idx + 1].term = current_term[l])
        ~> (/\ commit_index[l] >= idx
            /\ \A p \in Live : last_applied[p] >= idx)

\* C15: after the leader of term T has stopped, one of the two survivors
\* eventually becomes leader in a term greater than T, from every state the
\* survivors can be in, both being candidates of one term included (the
\* replication of later entries presupposes that leader).
C15_Failover ==
    <>(\E i \in Live : /\ state[i] = LEADER
                       /\ current_term[i] > current_term[Stopped])

\* C18: with a stable leader and all nodes reachable every command accepted
\* by append_entry is eventually present at the same index of every log,
\* committed and applied on every node, and the nodes end with logs of one
\* length and equal state machines; after the three commands of the example
\* every node ends with log length 3 and the state machine
\* {name: Alice, age: 30}.
C18_ReplicatedEverywhere ==
    /\ \A idx \in 0..(Len(ExampleCommands) - 1) :
          (\E l \in Cluster : state[l] = LEADER /\ Len(log[l]) > idx)
          ~> (\E m \in Cluster :
                 /\ state[m] = LEADER
                 /\ \A p \in Cluster :
                       /\ Len(log[p]) > idx
                       /\ EntryAt(p, idx) = EntryAt(m, idx)
                       /\ commit_index[p] >= idx
                       /\ last_applied[p] >= idx)
    /\ <>[](\A p \in Cluster, q \in Cluster :
               /\ Len(log[p]) = Len(log[q])
               /\ state_machine[p] = state_machine[q])
    /\ (\E l \in Cluster : state[l] = LEADER /\ Len(log[l]) = Len(ExampleCommands))
       ~> [](\A p \in Cluster :
                /\ Len(log[p]) = 3
                /\ state_machine[p] = ExampleMachine)

\* the three commands of the example are in the log of every node, committed
\* and applied
C18_Witness ==
    \A p \in all_nodes :
        /\ Len(log[p]) = 3
        /\ \A k \in 1..3 : log[p][k].command = ExampleCommands[k]
        /\ commit_index[p] = 2
        /\ last_applied[p] = 2
        /\ state_machine[p] = ExampleMachine

\* C19: once a node that was cut off exchanges messages with a stable leader
\* again, its log eventually equals the log of the leader, whatever entries it
\* holds or misses.
C19_LogRepair ==
    <>[](\A l \in Cluster, p \in Cluster :
            state[l] = LEADER => log[p] = log[l])

\* ------------------------------------------------------ repeated requests
\* an entry with term t appended after the log lg
LaterEntry(lg, t) == [term |-> t, index |-> Len(lg), command |-> CmdSet]

\* the log of the receiver after AppendEntries request req is handled on log lg
Redelivered(req, lg) == AppendLoop(lg, req.prev_log_index + 1, req.entries, 1)

\* C21: AppendEntries is idempotent on the log of the receiver: once a node
\* has accepted a request, the same request (same prev_log_index,
\* prev_log_term and entries) delivered again, at once or after a later entry
\* was appended, passes the consistency check and leaves the log as it is:
\* nothing is truncated and nothing is added twice.
C21_RedeliveryKeepsLog ==
    [][\A req \in append_requests \ append_requests' :
          LogOk(req, log[req.dst])
          => LET lg == log'[req.dst]
             IN /\ LogOk(req, lg)
                /\ Redelivered(req, lg) = lg
                /\ \A t \in 1..3 :
                      LET longer == Append(lg, LaterEntry(lg, t))
                      IN /\ LogOk(req, longer)
                         /\ Redelivered(req, longer) = longer]_vars

\* a request with entries is on the wire again after its receiver has
\* accepted it: the reply to the first delivery is still on its way to the
\* sender and the log of the receiver holds the entries of the request
C21_Witness ==
    \E req \in append_requests :
        /\ Len(req.entries) > 0
        /\ \E resp \in append_responses :
              /\ resp.src = req.dst
              /\ resp.dst = req.src
              /\ resp.success
              /\ resp.match_index = req.prev_log_index + Len(req.entries)
        /\ LogOk(req, log[req.dst])
        /\ Len(log[req.dst]) >= req.prev_log_index + 1 + Len(req.entries)
        /\ \A k \in 1..Len(req.entries) :
              log[req.dst][req.prev_log_index + 1 + k] = req.entries[k]

\* ------------------------------------------------------------ network layer
(***************************************************************************)
(* The calls and connections that carry no Raft request.  rpc records the  *)
(* last of them: kind "call" is a finished send_message_with_response of   *)
(* node to peer, kind "connection" a connection node has handled for a     *)
(* message of peer.  connect and reply are what the network did: how the   *)
(* connection attempt ended and which bytes came back.                     *)
(***************************************************************************)
VOTE_REQUEST == "vote_request"

APPEND_ENTRIES == "append_entries"

\* the values of MessageType and a msg_type that is none of them
MessageTypes ==
    {"vote_request", "vote_response", "append_entries", "append_response",
     "client_request", "client_response", "status_request", "status_response",
     "ping"}

OtherTypes == MessageTypes \ {VOTE_REQUEST, APPEND_ENTRIES}

ConnectOutcomes == {"connected", "timeout", "refused"}

ReplyKinds ==
    {"framed", "timeout", "eof", "truncated", "reset", "not_json", "not_utf8",
     "no_sender"}

\* NetworkComm.is_node_me on node i
is_node_me(i, node) == node = i

\* NetworkComm._receive_message on the bytes that came back: the decoded
\* message, None for the errors it catches, and the exception otherwise
_receive_message(reply) ==
    CASE reply = "framed" -> "message"
      [] reply \in {"eof", "truncated", "not_json"} -> "None"
      [] OTHER -> "raise"

\* a send_message_with_response without the except clauses of its try block
SendUncaught(i, target, connect, reply) ==
    IF is_node_me(i, target) \/ connect # "connected" \/ reply = "timeout"
    THEN "raise"
    ELSE IF _receive_message(reply) = "message"
         THEN "response"
         ELSE _receive_message(reply)

\* NetworkComm.send_message_with_response of node i to target: "response" for
\* the decoded reply, "None", or "raise" when an exception reaches the caller
send_message_with_response(i, target, connect, reply) ==
    IF is_node_me(i, target)
    THEN "raise"
    ELSE IF connect # "connected" \/ reply = "timeout"
         THEN "None"
         ELSE IF _receive_message(reply) = "message"
              THEN "response"
              ELSE "None"

\* a handler that answers every message
ConnectionResponseAlways(msg_type) == "reply"

\* RaftNode._handle_network_connection: what is written back for a message of
\* type msg_type
ConnectionResponse(msg_type) ==
    IF msg_type = VOTE_REQUEST \/ msg_type = APPEND_ENTRIES
    THEN "reply"
    ELSE "none"

\* RaftNode._handle_network_connection on node j for a message of node i that
\* is no VoteRequest and no AppendEntries request
_handle_network_connection(j, i, msg_type) ==
    /\ msg_type # VOTE_REQUEST
    /\ msg_type # APPEND_ENTRIES
    /\ rpc' = [kind |-> "connection", node |-> j, peer |-> i, msg_type |-> msg_type,
               connect |-> "connected", reply |-> "framed",
               outcome |-> ConnectionResponse(msg_type)]
    /\ UNCHANGED <<nodeVars, vote_round, ae_tasks, append_requests,
                   append_responses, elected, timeouts, refused, all_nodes, acked, committed, stopped>>

\* a call of send_message_with_response by node i with a message that is no
\* Raft request; nothing comes back when the connection was not made
Call ==
    /\ \E i \in all_nodes, target \in all_nodes, msg_type \in OtherTypes,
          connect \in ConnectOutcomes, reply \in ReplyKinds :
          /\ (is_node_me(i, target) \/ connect # "connected") => reply = "timeout"
          /\ is_node_me(i, target) => connect = "refused"
          /\ rpc' = [kind |-> "call", node |-> i, peer |-> target,
                     msg_type |-> msg_type, connect |-> connect, reply |-> reply,
                     outcome |-> send_message_with_response(i, target, connect, reply)]
    /\ UNCHANGED <<nodeVars, vote_round, ae_tasks, append_requests,
                   append_responses, elected, timeouts, refused, all_nodes, acked, committed, stopped>>

ReceiveOther ==
    \E j \in all_nodes, msg_type \in OtherTypes :
        \E i \in Others(j) : _handle_network_connection(j, i, msg_type)

NextNetwork ==
    \/ Call
    \/ ReceiveOther

\* the network layer seen from a new cluster, from the cluster with a
\* deposed leader and from the cluster with a diverged follower
SpecNetwork ==
    /\ (__init__(Cluster) \/ LateState \/ HealState)
    /\ [][NextNetwork]_vars

\* C22: a message whose msg_type is neither vote_request nor append_entries
\* is dropped: the receiver writes no reply, no error leaves the handler, and
\* current_term, voted_for, state, log, commit_index, last_applied and every
\* other variable of the protocol stay as they are.
C22_OtherTypeDropped ==
    [][(/\ rpc' # rpc
        /\ rpc'.kind = "connection"
        /\ rpc'.msg_type \notin {"vote_request", "append_entries"})
       => (/\ rpc'.outcome = "none"
           /\ UNCHANGED <<nodeVars, vote_round, ae_tasks, append_requests,
                          append_responses, elected>>)]_vars

\* a node that holds a log entry has handled a client_request message
C22_Witness ==
    /\ rpc.kind = "connection"
    /\ rpc.msg_type = "client_request"
    /\ rpc.outcome = "none"
    /\ Len(log[rpc.node]) > 0

\* C23 as amended: for every target other than the caller itself and every
\* failure (connect timeout, refused, reset, reply timeout, malformed or
\* truncated reply) send_message_with_response returns the decoded reply or
\* None and raises nothing, and it returns the reply exactly when the
\* connection was made and a well-formed reply came back; a call addressed to
\* the caller itself raises.
C23_ReplyOrNone ==
    rpc.kind = "call"
    => IF rpc.peer = rpc.node
       THEN rpc.outcome = "raise"
       ELSE /\ rpc.outcome \in {"response", "None"}
            /\ rpc.outcome = "response"
               <=> (rpc.connect = "connected" /\ rpc.reply = "framed")

\* a reply without the sender key came back from another node and the call
\* has returned None
C23_Witness ==
    /\ rpc.kind = "call"
    /\ rpc.peer # rpc.node
    /\ rpc.connect = "connected"
    /\ rpc.reply = "no_sender"
    /\ rpc.outcome = "None"

\* C23 as stated: send_message_with_response returns the decoded reply or
\* None for every target, and never raises to the caller.
C23_NeverRaises ==
    rpc.kind = "call" => rpc.outcome \in {"response", "None"}

\* ------------------------------------------------------ key-value commands
(***************************************************************************)
(* SpecApply: the stable leader of SpecStable with a client that submits   *)
(* any of the commands below, well-formed or not.                          *)
(***************************************************************************)
ApplyMaxLog == 3

\* "SET k w", "SET j v", "SET k v w", "GET k", "SET k" and "DEL k"
CmdSetW == <<"S", "E", "T", " ", "k", " ", "w">>

CmdSetJ == <<"S", "E", "T", " ", "j", " ", "v">>

CmdSetSpaced == <<"S", "E", "T", " ", "k", " ", "v", " ", "w">>

CmdGet == <<"G", "E", "T", " ", "k">>

CmdSetBare == <<"S", "E", "T", " ", "k">>

CmdDel == <<"D", "E", "L", " ", "k">>

MachineCommands ==
    {CmdSet, CmdSetW, CmdSetJ, CmdSetSpaced, CmdGet, CmdSetBare, CmdDel}

SubmitAny ==
    /\ \E i \in all_nodes, command \in MachineCommands :
          /\ state[i] = LEADER
          /\ Len(log[i]) < ApplyMaxLog
          /\ append_entry(i, command)
    /\ UNCHANGED <<timeouts, all_nodes, rpc, stopped>>

NextApply ==
    \/ Heartbeat
    \/ SendAppendEntries
    \/ HandleAppendEntries
    \/ DeliverAppendResponse
    \/ SubmitAny

SpecApply == MinorityState /\ [][NextApply]_vars

\* the commands node p has applied, in the order of their application
Applied(p) == [n \in 1..(last_applied[p] + 1) |-> log[p][n].command]

\* what a command assigns, as <<key, value>>: "SET k v" assigns v to k, and
\* the value runs to the end of the command; << >> for the commands that
\* assign nothing
Assignment(cmd) ==
    CASE cmd = CmdSet -> << <<"k">>, <<"v">> >>
      [] cmd = CmdSetW -> << <<"k">>, <<"w">> >>
      [] cmd = CmdSetJ -> << <<"j">>, <<"v">> >>
      [] cmd = CmdSetSpaced -> << <<"k">>, <<"v", " ", "w">> >>
      [] OTHER -> << >>

\* the mapping after the commands cmds: every key with the value of its last
\* assignment
Mapping(cmds) ==
    {Assignment(cmds[n]) : n \in
        {n \in 1..Len(cmds) :
            /\ Assignment(cmds[n]) # << >>
            /\ \A m \in (n + 1)..Len(cmds) :
                  \/ Assignment(cmds[m]) = << >>
                  \/ Assignment(cmds[m])[1] # Assignment(cmds[n])[1]}}

\* C24: the key-value state machine is a function of the sequence of applied
\* entries: "SET k v" maps k to v, "GET k" and every other command leave the
\* mapping as it is, so the state machine of a node is the mapping of the
\* commands it has applied, from the empty mapping on, and two nodes that
\* have applied the same prefix hold equal mappings.
C24_MachineOfApplied ==
    /\ \A p \in all_nodes :
          /\ last_applied[p] < Len(log[p])
          /\ state_machine[p] = Mapping(Applied(p))
    /\ \A p \in all_nodes, q \in all_nodes :
          Applied(p) = Applied(q) => state_machine[p] = state_machine[q]

\* a follower has applied "SET k v", "GET k" and "SET k w" and maps k to w
C24_Witness ==
    \E p \in all_nodes :
        /\ state[p] = FOLLOWER
        /\ Applied(p) = <<CmdSet, CmdGet, CmdSetW>>
        /\ state_machine[p] = {<< <<"k">>, <<"w">> >>}

\* C25: a candidate whose election timeout elapses without a majority starts
\* a new election in a new term: every round of vote requests a node starts
\* carries a term one above the term the node had before, so no two rounds of
\* one node carry the same term.
C25_NewTermPerRound ==
    [][\A i \in all_nodes :
          (~vote_round[i].active /\ vote_round'[i].active)
          => /\ current_term'[i] = current_term[i] + 1
             /\ vote_round'[i].term = current_term'[i]]_vars

\* C26: step-down on a higher term: a node in any role that handles a
\* VoteRequest, the VoteResponses of its round, an AppendEntries request or an
\* AppendEntries response with a term above its current_term sets, in that
\* step, current_term to the term it has seen, voted_for to None (a vote
\* request may then give the vote of the new term to its candidate) and its
\* state to follower.
C26_StepDownOnHigherTerm ==
    [][/\ \A i \in all_nodes, j \in all_nodes :
             (/\ vote_round[i].active
              /\ j \in Others(i)
              /\ vote_round[i].resp[j].status = "pending"
              /\ vote_round[i].term > current_term[j]
              /\ \E answered \in BOOLEAN : _handle_vote_request(i, j, answered))
             => /\ current_term'[j] = vote_round[i].term
                /\ state'[j] = FOLLOWER
                /\ voted_for'[j] \in {None, i}
       /\ \A i \in all_nodes :
             (/\ vote_round[i].active
              /\ _process_vote_responses(i)
              /\ \E j \in Others(i) : /\ vote_round[i].resp[j].status = "reply"
                                      /\ vote_round[i].resp[j].term > current_term[i])
             => /\ \E j \in Others(i) : /\ vote_round[i].resp[j].status = "reply"
                                        /\ vote_round[i].resp[j].term = current_term'[i]
                /\ \A j \in Others(i) : vote_round[i].resp[j].term <= current_term'[i]
                /\ state'[i] = FOLLOWER
                /\ voted_for'[i] = None
       /\ \A req \in append_requests :
             (/\ req.term > current_term[req.dst]
              /\ \E answered \in BOOLEAN : _handle_append_entries(req, answered))
             => /\ current_term'[req.dst] = req.term
                /\ state'[req.dst] = FOLLOWER
                /\ voted_for'[req.dst] = None
       /\ \A resp \in append_responses :
             (/\ resp.term > current_term[resp.dst]
              /\ _process_append_response(resp))
             => /\ current_term'[resp.dst] = resp.term
                /\ state'[resp.dst] = FOLLOWER
                /\ voted_for'[resp.dst] = None]_vars

\* a node that has led a term is follower of a later term without a vote
C26_Witness ==
    \E i \in all_nodes :
        /\ \E t \in 1..MaxTimeouts : <<t, i>> \in elected /\ t < current_term[i]
        /\ state[i] = FOLLOWER
        /\ voted_for[i] = None

C28_LeaderByMajority ==
    [][\A i \in all_nodes :
          (state[i] # LEADER /\ state'[i] = LEADER)
          => /\ vote_round[i].active
             /\ vote_round[i].term = current_term[i]
             /\ current_term'[i] = current_term[i]
             /\ Cardinality({j \in all_nodes \ {i} :
                    /\ vote_round[i].resp[j].status = "reply"
                    /\ vote_round[i].resp[j].vote_granted
                    /\ vote_round[i].resp[j].term = current_term[i]}) + 1
                >= (Cardinality(all_nodes) \div 2) + 1]_vars

\* a node leads term 2 with the votes of itself and of one other node, the
\* third node being in term 2 without having voted for it
C28_Witness ==
    \E i \in all_nodes :
        /\ state[i] = LEADER
        /\ current_term[i] = 2
        /\ <<2, i>> \in elected
        /\ \A j \in all_nodes : current_term[j] = 2
        /\ Cardinality({j \in all_nodes : voted_for[j] = i}) = 2

\* C29: AppendEntries consistency check: the receiver accepts iff
\* prev_log_index < 0, or prev_log_index < len(log) and the entry at
\* prev_log_index has term prev_log_term; on rejection it replies with its
\* current_term, success false and match_index -1, and its log, commit_index
\* and last_applied stay as they are; on acceptance it replies success true
\* with match_index = prev_log_index + len(entries).
C29_ConsistencyCheck ==
    [][\A req \in append_requests :
          (\E answered \in BOOLEAN : _handle_append_entries(req, answered))
          => LET j == req.dst
                 accept == \/ req.prev_log_index < 0
                           \/ /\ req.prev_log_index < Len(log[j])
                              /\ log[j][req.prev_log_index + 1].term = req.prev_log_term
             IN /\ ~accept => /\ log'[j] = log[j]
                              /\ commit_index'[j] = commit_index[j]
                              /\ last_applied'[j] = last_applied[j]
                /\ \A resp \in append_responses' \ append_responses :
                      /\ resp.src = j
                      /\ resp.dst = req.src
                      /\ resp.term = current_term'[j]
                      /\ resp.success = accept
                      /\ resp.match_index = IF accept
                                            THEN req.prev_log_index + Len(req.entries)
                                            ELSE -1]_vars

\* two replies are on the wire: one of a node that has rejected a request
\* because its entry at prev_log_index is of another term, and one of a node
\* that has accepted a request with entries
C29_Witness ==
    /\ \E resp \in append_responses :
          /\ ~resp.success
          /\ resp.match_index = -1
          /\ Len(log[resp.src]) > 0
    /\ \E resp \in append_responses :
          /\ resp.success
          /\ resp.match_index >= 0
          /\ Len(log[resp.src]) = resp.match_index + 1

\* the nodes whose log holds at index idx the entry the log of node l holds
StoredOn(l, idx) ==
    {p \in all_nodes : Len(log[p]) > idx /\ log[p][idx + 1] = log[l][idx + 1]}

\* C30: leader commit rule: a leader sets commit_index to i only if i is
\* above its old commit_index, the entry at i is of its current_term and is
\* at that moment stored in the logs of at least floor(N/2)+1 nodes, the
\* leader included; and i is the largest index replicated on a majority.
C30_LeaderCommitRule ==
    [][\A l \in all_nodes :
          (/\ state[l] = LEADER
           /\ \E heartbeat \in BOOLEAN : _handle_leader_state(l, heartbeat)
           /\ commit_index'[l] # commit_index[l])
          => LET i == commit_index'[l]
                 majority == (Cardinality(all_nodes) \div 2) + 1
             IN /\ i > commit_index[l]
                /\ i < Len(log[l])
                /\ log[l][i + 1].term = current_term[l]
                /\ Cardinality(StoredOn(l, i)) >= majority
                /\ \A k \in (i + 1)..(Len(log[l]) - 1) :
                      Cardinality(StoredOn(l, k)) < majority]_vars


\* ---------------------------------------------- replication batches per peer
\* C31: once a leader has processed the success of an AppendEntries to a
\* follower that reached index p + k (prev_log_index p, k entries), every
\* AppendEntries it sends to that follower afterwards in the same term has a
\* prev_log_index of p + k or more.
C31_NoReordering ==
    [][\A i \in all_nodes, j \in all_nodes :
          (/\ _send_append_entries(i, j, TRUE)
           /\ ~SendRaises(i, j)
           /\ state[i] = LEADER
           /\ acked[i][j].term = current_term[i]) =>
              AppendRequest(i, j).prev_log_index >= acked[i][j].index]_vars


\* ------------------------------------------------ responses of the fan-out
\* C32: every response to an AppendEntries is processed while the node that
\* sent the request is still leader: none is processed after the node left
\* the leader state.
C32_ResponsesRejoin ==
    [][\A resp \in append_responses :
          _process_append_response(resp) => state[resp.dst] = LEADER]_vars


\* ------------------------------------------------- one election round a node
\* C33: while a round of VoteRequests of a node is in flight the node starts
\* no other round and no other term: the round keeps its request, its replies
\* only go from pending to collected, the node does not become candidate
\* again, and the round ends only when no reply is pending.
C33_OneRoundInFlight ==
    [][\A i \in all_nodes :
          vote_round[i].active =>
              /\ ~(state[i] = FOLLOWER /\ state'[i] = CANDIDATE)
              /\ IF vote_round'[i].active
                 THEN /\ vote_round'[i].term = vote_round[i].term
                      /\ vote_round'[i].last_log_index = vote_round[i].last_log_index
                      /\ vote_round'[i].last_log_term = vote_round[i].last_log_term
                      /\ \A j \in Others(i) :
                            \/ vote_round'[i].resp[j] = vote_round[i].resp[j]
                            \/ /\ vote_round[i].resp[j].status = "pending"
                               /\ vote_round'[i].resp[j].status # "pending"
                 ELSE \A j \in Others(i) : vote_round[i].resp[j].status # "pending"]_vars

\* a candidate whose round is in flight, one reply collected and one pending,
\* while its election timeout may elapse again
C33_Witness ==
    \E i \in all_nodes :
        /\ vote_round[i].active
        /\ state[i] = CANDIDATE
        /\ timeouts < MaxTimeouts
        /\ \E j \in Others(i) : vote_round[i].resp[j].status = "pending"
        /\ \E j \in Others(i) : vote_round[i].resp[j].status = "reply"


\* ---------------------------------------------------------------- stop()
(***************************************************************************)
(* SpecStop: the cluster from its initial state, where one node is stopped *)
(* at any moment.  The raft loop of a stopped node takes no further tick   *)
(* and its server accepts no connection; the tasks _send_heartbeats has    *)
(* created are not in self._tasks and run on.  At most StopTimeouts        *)
(* election timeouts elapse.                                               *)
(***************************************************************************)
StopTimeouts == 1

Running == all_nodes \ stopped

\* RaftNode.stop on node i: the raft loop task is cancelled, and with it the
\* gather of _request_votes it may be suspended in; the server is shut down
stop(i) ==
    /\ i \notin stopped
    /\ stopped' = stopped \cup {i}
    /\ vote_round' = [vote_round EXCEPT ![i] = NoRound]
    /\ UNCHANGED <<nodeVars, ae_tasks, append_requests, append_responses, elected,
                   acked, committed, timeouts, refused, all_nodes, rpc>>

StopNode ==
    /\ stopped = {}
    /\ \E i \in all_nodes : stop(i)

RunningTimeout ==
    /\ timeouts < StopTimeouts
    /\ timeouts' = timeouts + 1
    /\ \E i \in Running : _become_candidate(i)
    /\ UNCHANGED <<refused, all_nodes, rpc, stopped>>

RunningVoteRequest ==
    /\ \E i \in Running, j \in Running : _handle_vote_request(i, j, TRUE)
    /\ UNCHANGED <<timeouts, refused, all_nodes, rpc, stopped>>

RefusedVoteRequest ==
    /\ \E i \in Running, j \in stopped : VoteRequestFails(i, j)
    /\ UNCHANGED <<timeouts, refused, all_nodes, rpc, stopped>>

RunningGather ==
    /\ \E i \in Running : _process_vote_responses(i)
    /\ UNCHANGED <<timeouts, refused, all_nodes, rpc, stopped>>

RunningTick ==
    /\ \E i \in Running, heartbeat \in BOOLEAN : _handle_leader_state(i, heartbeat)
    /\ UNCHANGED <<timeouts, refused, all_nodes, rpc, stopped>>

\* a send task of any node, stopped or not, reaches a running node
TaskSend ==
    /\ InFlight < MaxInFlight
    /\ \E i \in all_nodes, j \in Running : _send_append_entries(i, j, TRUE)
    /\ UNCHANGED <<timeouts, refused, all_nodes, rpc, stopped>>

RefusedSend ==
    /\ \E i \in all_nodes, j \in stopped : _send_append_entries(i, j, FALSE)
    /\ UNCHANGED <<timeouts, refused, all_nodes, rpc, stopped>>

RunningAppendEntries ==
    /\ \E req \in append_requests : req.dst \in Running /\ _handle_append_entries(req, TRUE)
    /\ UNCHANGED <<timeouts, refused, all_nodes, rpc, stopped>>

\* the send task of any node, stopped or not, gets its response
TaskAppendResponse ==
    /\ \E resp \in append_responses : _process_append_response(resp)
    /\ UNCHANGED <<timeouts, refused, all_nodes, rpc, stopped>>

RunningSubmit ==
    /\ \E i \in Running, command \in Commands :
          /\ state[i] = LEADER
          /\ Len(log[i]) < MaxLog
          /\ append_entry(i, command)
    /\ UNCHANGED <<timeouts, all_nodes, rpc, stopped>>

NextStop ==
    \/ StopNode
    \/ RunningTimeout
    \/ RunningVoteRequest
    \/ RefusedVoteRequest
    \/ RunningGather
    \/ RunningTick
    \/ TaskSend
    \/ RefusedSend
    \/ RunningAppendEntries
    \/ TaskAppendResponse
    \/ RunningSubmit

SpecStop == __init__(Cluster) /\ [][NextStop]_vars

\* C34: once stop() has returned on a node, none of its AppendEntries tasks
\* and none of its VoteRequests is pending, and no step changes its
\* current_term, state, voted_for, next_index or match_index.
C34_StopCancelsOutbound ==
    [][\A i \in stopped :
          /\ \A j \in all_nodes : <<i, j>> \notin ae_tasks
          /\ ~vote_round[i].active
          /\ current_term'[i] = current_term[i]
          /\ state'[i] = state[i]
          /\ voted_for'[i] = voted_for[i]
          /\ next_index'[i] = next_index[i]
          /\ match_index'[i] = match_index[i]]_vars


\* ------------------------------------------------- a later election
(***************************************************************************)
(* SpecReelect starts in LateState and goes on as SpecStale does, with one *)
(* addition: while nothing prompt is on the wire the election timer of a   *)
(* follower may elapse, at most ReelectTimeouts times, and its             *)
(* VoteRequests are answered.  Logs hold at most ReelectMaxLog entries and *)
(* at most ReelectMaxInFlight requests and responses are on the wire.      *)
(***************************************************************************)
ReelectTimeouts == 1

ReelectMaxLog == 1

ReelectMaxInFlight == 3

ReelectTimeout ==
    /\ Quiet
    /\ timeouts < MaxTimeouts + ReelectTimeouts
    /\ timeouts' = timeouts + 1
    /\ \E i \in all_nodes : _become_candidate(i)
    /\ UNCHANGED <<refused, all_nodes, rpc, stopped>>

ReelectVoteRequest ==
    /\ \E i \in all_nodes, j \in all_nodes : _handle_vote_request(i, j, TRUE)
    /\ UNCHANGED <<timeouts, refused, all_nodes, rpc, stopped>>

ReelectSend ==
    /\ InFlight < ReelectMaxInFlight
    /\ \E i \in all_nodes, j \in all_nodes : _send_append_entries(i, j, TRUE)
    /\ UNCHANGED <<timeouts, refused, all_nodes, rpc, stopped>>

ReelectSubmit ==
    /\ Quiet
    /\ \E i \in all_nodes, command \in Commands :
          /\ state[i] = LEADER
          /\ Len(log[i]) < ReelectMaxLog
          /\ append_entry(i, command)
    /\ UNCHANGED <<timeouts, all_nodes, rpc, stopped>>

NextReelect ==
    \/ ReelectTimeout
    \/ ReelectVoteRequest
    \/ GatherVotes
    \/ StaleTick
    \/ ReelectSend
    \/ FailAppendEntries
    \/ StalePromptRequest
    \/ StalePromptResponse
    \/ StaleLateRequest
    \/ StaleLateResponse
    \/ ReelectSubmit

SpecReelect == LateState /\ [][NextReelect]_vars

C36_LeaderCompleteness ==
    \A c \in committed, l \in all_nodes :
        (state[l] = LEADER /\ current_term[l] > c.term) =>
            /\ c.index < Len(log[l])
            /\ log[l][c.index + 1] = c.entry


\* C37: whenever a node is leader and its match_index for another node p is
\* m >= 0, the log of p holds the leader's entries at every index 0..m.
C37_MatchIndexSound ==
    \A l \in all_nodes, p \in all_nodes :
        (state[l] = LEADER /\ p # l /\ match_index[l][p] >= 0) =>
            \A k \in 0..match_index[l][p] :
                /\ k < Len(log[l])
                /\ k < Len(log[p])
                /\ log[p][k + 1] = log[l][k + 1]


\* C38: every step that changes the state of a node takes it from follower to
\* candidate, from candidate to leader, or from candidate or leader to
\* follower; none takes a follower to leader or a leader to candidate.
C38_RoleTransitions ==
    [][\A i \in all_nodes :
          state'[i] # state[i] =>
              \/ state[i] = FOLLOWER /\ state'[i] = CANDIDATE
              \/ state[i] = CANDIDATE /\ state'[i] = LEADER
              \/ state[i] = CANDIDATE /\ state'[i] = FOLLOWER
              \/ state[i] = LEADER /\ state'[i] = FOLLOWER]_vars

\* the replies of a round are processed on a node that a request of a higher
\* term has made follower while they were gathered; one of them grants
C38_Witness ==
    \E i \in all_nodes :
        /\ vote_round[i].active
        /\ state[i] = FOLLOWER
        /\ current_term[i] > vote_round[i].term
        /\ \A j \in Others(i) : vote_round[i].resp[j].status # "pending"
        /\ \E j \in Others(i) : vote_round[i].resp[j].vote_granted


\* C39: on every node the state machine is the result of applying, in index
\* order from the empty mapping, the entries at indices 0..last_applied of
\* the node's log.
C39_MachineOfLog ==
    \A p \in all_nodes :
        /\ last_applied[p] < Len(log[p])
        /\ state_machine[p] = ApplyLoop({}, log[p], -1, last_applied[p]).sm

\* C40: on every node commit_index <= len(log) - 1.
C40_CommitWithinLog ==
    \A p \in all_nodes : commit_index[p] <= Len(log[p]) - 1

====
